---- MODULE Spec2Model ----
(***************************************************************************)
(* Model of the security data pipeline of nginx-datadog:                   *)
(*   src/security/collection.cpp  (req_serializer, header_key_value_iter)  *)
(*   src/security/blocking.cpp    (block_resp, blocking_service)           *)
(* Strings are sequences of byte values, so that lower-casing, splitting   *)
(* and number formatting are computed the way the code computes them.      *)
(***************************************************************************)
EXTENDS Integers, Sequences, FiniteSets, TLC

(* ------------------------------------------------------------------ *)
(* Byte-string literals                                                 *)
(* ------------------------------------------------------------------ *)
\* "server.request.query"
QUERY == <<115,101,114,118,101,114,46,114,101,113,117,101,115,116,46,113,117,101,114,121>>
\* "server.request.uri.raw"
URI_RAW == <<115,101,114,118,101,114,46,114,101,113,117,101,115,116,46,117,114,105,46,114,97,119>>
\* "server.request.method"
METHOD == <<115,101,114,118,101,114,46,114,101,113,117,101,115,116,46,109,101,116,104,111,100>>
\* "server.request.headers.no_cookies"
HEADERS_NO_COOKIES == <<115,101,114,118,101,114,46,114,101,113,117,101,115,116,46,104,101,97,100,101,114,115,46,110,111,95,99,111,111,107,105,101,115>>
\* "server.request.cookies"
COOKIES == <<115,101,114,118,101,114,46,114,101,113,117,101,115,116,46,99,111,111,107,105,101,115>>
\* "server.response.status"
STATUS == <<115,101,114,118,101,114,46,114,101,115,112,111,110,115,101,46,115,116,97,116,117,115>>
\* "http.client_ip"
CLIENT_IP == <<104,116,116,112,46,99,108,105,101,110,116,95,105,112>>
\* "server.response.headers.no_cookies"
RESP_HEADERS_NO_COOKIES == <<115,101,114,118,101,114,46,114,101,115,112,111,110,115,101,46,104,101,97,100,101,114,115,46,110,111,95,99,111,111,107,105,101,115>>
\* "cookie"
cookie == <<99,111,111,107,105,101>>
\* "set-cookie"
set_cookie == <<115,101,116,45,99,111,111,107,105,101>>
\* "Cookie"
HdrCookie == <<67,111,111,107,105,101>>
\* "Set-Cookie"
HdrSetCookie == <<83,101,116,45,67,111,111,107,105,101>>
\* "A"
HdrUpperA == <<65>>
\* "a"
HdrLowerA == <<97>>
\* "b"
HdrLowerB == <<98>>
\* "1"
Val1 == <<49>>
\* "2"
Val2 == <<50>>
\* "text"
StrText == <<116,101,120,116>>
\* "html"
StrHtml == <<104,116,109,108>>
\* "application"
StrApplication == <<97,112,112,108,105,99,97,116,105,111,110>>
\* "json"
StrJson == <<106,115,111,110>>
\* "*"
StrStar == <<42>>
\* "q="
StrQEq == <<113,61>>
\* "200"
Str200 == <<50,48,48>>
\* "404"
Str404 == <<52,48,52>>
\* "301"
Str301 == <<51,48,49>>
\* "302"
Str302 == <<51,48,50>>
\* "303"
Str303 == <<51,48,51>>
\* "201"
Str201 == <<50,48,49>>
\* "0"
Str0 == <<48>>
\* "text/html"
SegHtml == <<116,101,120,116,47,104,116,109,108>>
\* "application/json"
SegJson == <<97,112,112,108,105,99,97,116,105,111,110,47,106,115,111,110>>
\* "application/json;q=0.9"
SegJson09 == <<97,112,112,108,105,99,97,116,105,111,110,47,106,115,111,110,59,113,61,48,46,57>>
\* "text/html;q=0.5"
SegHtml05 == <<116,101,120,116,47,104,116,109,108,59,113,61,48,46,53>>
\* "text/*"
SegTextAny == <<116,101,120,116,47,42>>
\* "application/*;q=0.5"
SegAppAny05 == <<97,112,112,108,105,99,97,116,105,111,110,47,42,59,113,61,48,46,53>>
\* "*/*"
SegAny == <<42,47,42>>
\* "image/png"
SegPng == <<105,109,97,103,101,47,112,110,103>>
\* "html"
SegNoSlash == <<104,116,109,108>>
\* " application/json"
SegSpJson == <<32,97,112,112,108,105,99,97,116,105,111,110,47,106,115,111,110>>
\* "text/html;level=1;q=0.5"
SegHtmlLevelQ05 == <<116,101,120,116,47,104,116,109,108,59,108,101,118,101,108,61,49,59,113,61,48,46,53>>
\* "application/json;q=2"
SegJsonQ2 == <<97,112,112,108,105,99,97,116,105,111,110,47,106,115,111,110,59,113,61,50>>
\* "a=1"
QueryA1 == <<97,61,49>>
\* "a=1&a=2&b=3"
QueryA1A2B3 == <<97,61,49,38,97,61,50,38,98,61,51>>
\* "x=1; y=2"
CookieX1Y2 == <<120,61,49,59,32,121,61,50>>
\* "x=3"
CookieX3 == <<120,61,51>>
\* "/"
UriRoot == <<47>>
\* "GET"
MethodGet == <<71,69,84>>
\* "1.2.3.4"
Ip1 == <<49,46,50,46,51,46,52>>
\* "/blocked"
LocationUrl == <<47,98,108,111,99,107,101,100>>
\* "Location"
Location == <<76,111,99,97,116,105,111,110>>
\* "Host"
HdrHost == <<72,111,115,116>>
\* "h"
ValHost == <<104>>

(* ------------------------------------------------------------------ *)
(* Bounds of the model                                                  *)
(* ------------------------------------------------------------------ *)
\* longest header list handed to the aggregator
MaxHeaders == 3
\* response statuses 0..MaxStatus (and 999) are serialized
MaxStatus == 650
\* most segments of an Accept header
MaxSegments == 3
\* most calls of blocking_service::initialize
MaxInitCalls == 2

VARIABLES
  \* set_value_from_iter<header_key_value_iter<IsRequest>>
  it,               \* the header_key_value_iter
  keys_bag,         \* key -> number of occurrences (pass 1)
  slot,             \* the ddwaf_obj the map is built in
  next_free_entry,  \* number of map entries handed out so far
  indexed_entries,  \* key -> index (in slot.elems) of its array entry
  oob,              \* a write went past the capacity of a map or array
  agg_pc,           \* "count", "fill", "done"; "idle" outside SpecAgg
  \* collect_request_data / collect_response_data
  headers_in_has_cookie_v,  \* build constant: ngx headers_in has a cookie member
  request,          \* the ngx_http_request_t of the last call
  root,             \* the tree the last call returned
  ser_pc,           \* "idle", "serialize", "serialize_end", "crashed"
  \* block_resp::determine_ct
  accept,           \* req.headers_in.accept: [present, value]
  ct_it,            \* the accept_entry_iter
  best,             \* json_spec, html_spec, json_qvalue, json_pos, html_qvalue, html_pos
  ct_pos,           \* the loop counter pos
  ct_result,        \* the content type returned
  ct_pc,            \* "start", "scan", "done"; "idle" outside SpecCt
  \* blocking_service
  instance,         \* blocking_service::instance
  init_calls,       \* number of calls of initialize so far
  init_error,       \* what the last call of initialize threw ("none": nothing)
  init_args,        \* the template paths the last call of initialize received
  blk_in,           \* the block spec and the request block is called with
  blk_req,          \* the request as block leaves it
  blk_calls,        \* the nginx calls block made, in order
  blk_pc            \* "pending", "blocked", "crashed"; "idle" outside SpecBlk

agg_vars == <<it, keys_bag, slot, next_free_entry, indexed_entries, oob, agg_pc>>

ser_vars == <<headers_in_has_cookie_v, request, root, ser_pc>>

ct_vars == <<accept, ct_it, best, ct_pos, ct_result, ct_pc>>

blk_vars == <<instance, init_calls, init_error, init_args, blk_in, blk_req, blk_calls, blk_pc>>

vars == <<agg_vars, ser_vars, ct_vars, blk_vars>>

(* ------------------------------------------------------------------ *)
(* Helpers on sequences and functions                                   *)
(* ------------------------------------------------------------------ *)
BoundedSeq(S, n) == UNION {[1..k -> S] : k \in 0..n}

EmptyFun == [x \in {} |-> 0]

FunPut(f, k, v) == [x \in (DOMAIN f) \cup {k} |-> IF x = k THEN v ELSE f[x]]

(* ------------------------------------------------------------------ *)
(* Generic value tree (ddwaf_obj.h is not part of the sources; the node *)
(* is modelled after spec sections 3 and 4.1).  elems[i+1] is entry i.  *)
(* ------------------------------------------------------------------ *)
RawObj ==
  [hasKey |-> FALSE, key |-> <<>>, type |-> "Unset", str |-> <<>>,
   nbEntries |-> 0, elems |-> <<>>]

set_key(o, k) == [o EXCEPT !.hasKey = TRUE, !.key = k]

make_string(o, v) ==
  [o EXCEPT !.type = "String", !.str = v, !.nbEntries = Len(v), !.elems = <<>>]

make_null(o) ==
  [o EXCEPT !.type = "Null", !.str = <<>>, !.nbEntries = 0, !.elems = <<>>]

make_map(o, n) ==
  [o EXCEPT !.type = "Map", !.str = <<>>, !.nbEntries = n,
            !.elems = [i \in 1..n |-> RawObj]]

make_array(o, n) ==
  [o EXCEPT !.type = "Array", !.str = <<>>, !.nbEntries = n,
            !.elems = [i \in 1..n |-> RawObj]]

(* ------------------------------------------------------------------ *)
(* header_key_value_iter<IsRequest>  (collection.cpp 174-257)           *)
(* A header is [key, value, hash]; hash = 0 marks a removed header.     *)
(* it_ is the position in the list, Len(list)+1 being end_.             *)
(* ------------------------------------------------------------------ *)
LowerByte(c) == IF c >= 65 /\ c <= 90 THEN c + 32 ELSE c

LowerStr(s) == [i \in 1..Len(s) |-> LowerByte(s[i])]

\* dns::lc_key (util.h, not part of the sources): the lower-cased header name
lc_key(header) == LowerStr(header.key)

safe_lowcase_key(i, header) ==
  IF i.isRequest THEN lc_key(header)
  ELSE IF header.key \in DOMAIN i.lc_keys_ THEN i.lc_keys_[header.key]
  ELSE LowerStr(header.key)

\* the iterator after a call of safe_lowcase_key: the per-call cache grows
lc_keys_after(i, header) ==
  IF i.isRequest \/ header.key \in DOMAIN i.lc_keys_ THEN i
  ELSE [i EXCEPT !.lc_keys_ = FunPut(@, header.key, LowerStr(header.key))]

header_key_value_iter(isRequest, list, exclude) ==
  [kind |-> "header", isRequest |-> isRequest, list |-> list,
   exclude |-> exclude, lc_keys_ |-> EmptyFun, it_ |-> 1]

RECURSIVE iter_skip(_, _)
\* one round of the while(true) loop of operator++, entered with it_ = p
iter_skip(i, p) ==
  LET q == p + 1 IN
  IF q > Len(i.list) THEN [i EXCEPT !.it_ = q]
  ELSE LET h  == i.list[q]
           lc == safe_lowcase_key(i, h)
           i2 == lc_keys_after(i, h)
       IN  IF lc # i.exclude THEN [i2 EXCEPT !.it_ = q]
           ELSE iter_skip(i2, q)

(* ------------------------------------------------------------------ *)
(* query_string_iter and qs_iter_agg (decode.h is not part of the       *)
(* sources; modelled after spec section 4.3): the source is split on    *)
(* the delimiter, each piece on its first '=', optionally trimmed; the  *)
(* aggregate runs its sub-iterators one after the other; no deletes.    *)
(* ------------------------------------------------------------------ *)
IndexOf(s, c) ==
  IF \E j \in 1..Len(s) : s[j] = c
  THEN CHOOSE j \in 1..Len(s) : s[j] = c /\ \A l \in 1..(j - 1) : s[l] # c
  ELSE 0

RECURSIVE SplitOn(_, _)
SplitOn(s, d) ==
  LET j == IndexOf(s, d) IN
  IF j = 0 THEN <<s>>
  ELSE <<SubSeq(s, 1, j - 1)>> \o SplitOn(SubSeq(s, j + 1, Len(s)), d)

IsSpace(c) == c \in {32, 9, 10, 11, 12, 13}

RECURSIVE TrimSpaces(_)
TrimSpaces(s) ==
  IF Len(s) > 0 /\ IsSpace(s[1]) THEN TrimSpaces(Tail(s))
  ELSE IF Len(s) > 0 /\ IsSpace(s[Len(s)]) THEN TrimSpaces(SubSeq(s, 1, Len(s) - 1))
  ELSE s

SplitPair(piece, do_trim) ==
  LET j == IndexOf(piece, 61)
      k == IF j = 0 THEN piece ELSE SubSeq(piece, 1, j - 1)
      v == IF j = 0 THEN <<>> ELSE SubSeq(piece, j + 1, Len(piece))
  IN  [key |-> IF do_trim THEN TrimSpaces(k) ELSE k,
       value |-> IF do_trim THEN TrimSpaces(v) ELSE v]

RECURSIVE PairsOf(_, _)
PairsOf(pieces, do_trim) ==
  IF pieces = <<>> THEN <<>>
  ELSE (IF Len(IF do_trim THEN TrimSpaces(Head(pieces)) ELSE Head(pieces)) = 0
        THEN <<>> ELSE <<SplitPair(Head(pieces), do_trim)>>)
       \o PairsOf(Tail(pieces), do_trim)

query_string_iter(str, delim, do_trim) ==
  [kind |-> "pairs", list |-> PairsOf(SplitOn(str, delim), do_trim), it_ |-> 1]

RECURSIVE ConcatLists(_)
ConcatLists(iters) ==
  IF iters = <<>> THEN <<>> ELSE Head(iters).list \o ConcatLists(Tail(iters))

qs_iter_agg(iters) == [kind |-> "pairs", list |-> ConcatLists(iters), it_ |-> 1]

(* ------------------------------------------------------------------ *)
(* The keyed-pair source capability, as set_value_from_iter uses it     *)
(* ------------------------------------------------------------------ *)
iter_reset(i) == [i EXCEPT !.it_ = 1]

iter_ended(i) == i.it_ > Len(i.list)

iter_increment(i) ==
  IF i.kind = "header" THEN iter_skip(i, i.it_) ELSE [i EXCEPT !.it_ = i.it_ + 1]

cur_key(i) ==
  IF i.kind = "header" THEN safe_lowcase_key(i, i.list[i.it_])
  ELSE i.list[i.it_].key

iter_deref(i) ==
  IF i.kind = "header"
  THEN [key |-> safe_lowcase_key(i, i.list[i.it_]), value |-> i.list[i.it_].value]
  ELSE [key |-> i.list[i.it_].key, value |-> i.list[i.it_].value]

is_delete(i) ==
  IF i.kind = "header" /\ ~i.isRequest THEN i.list[i.it_].hash = 0 ELSE FALSE

\* the iterator once the current element was read and ++ applied
iter_next(i) ==
  IF i.kind = "header" THEN iter_increment(lc_keys_after(i, i.list[i.it_]))
  ELSE iter_increment(i)

(* ------------------------------------------------------------------ *)
(* req_serializer::set_value_from_iter  (collection.cpp 102-161)        *)
(* f = [slot, next_free_entry, indexed_entries, oob] is the state of    *)
(* the fill pass.                                                       *)
(* ------------------------------------------------------------------ *)
\* pass 1, one round: keys_bag[key]++
count_occurrence(bag, key) ==
  FunPut(bag, key, IF key \in DOMAIN bag THEN bag[key] + 1 ELSE 1)

\* lines 116-120: allocate the map entries
alloc_entries(s, bag) ==
  [slot |-> make_map(s, Cardinality(DOMAIN bag)), next_free_entry |-> 0,
   indexed_entries |-> EmptyFun, oob |-> FALSE]

\* lines 130-135: the key occurs once; entry = *next_free_entry++
fill_single(f, key, value) ==
  LET idx == f.next_free_entry + 1 IN
  IF idx > Len(f.slot.elems)
  THEN [f EXCEPT !.oob = TRUE, !.next_free_entry = idx]
  ELSE [f EXCEPT !.slot.elems[idx] = make_string(set_key(@, key), value),
                 !.next_free_entry = idx]

\* lines 138-149: first occurrence of a key that occurs num_occurr > 1 times
fill_first(f, key, value, del, num_occurr) ==
  LET idx == f.next_free_entry + 1 IN
  IF idx > Len(f.slot.elems)
  THEN [f EXCEPT !.oob = TRUE, !.next_free_entry = idx]
  ELSE LET arr0 == make_array(set_key(f.slot.elems[idx], key), num_occurr)
           arr  == IF ~del
                   THEN [arr0 EXCEPT !.elems[1] = make_string(@, value),
                                     !.nbEntries = 1]
                   ELSE arr0
       IN  [f EXCEPT !.slot.elems[idx] = arr,
                     !.next_free_entry = idx,
                     !.indexed_entries = FunPut(@, key, idx)]

\* a plausible slip: the value is written at nbEntries, which is not advanced
fill_subsequent_NoAdvance(f, key, value, del) ==
  LET ie  == f.indexed_entries[key]
      arr == f.slot.elems[ie]
  IN
  IF ~del
  THEN IF arr.nbEntries < Len(arr.elems)
       THEN [f EXCEPT !.slot.elems[ie].elems[arr.nbEntries + 1] =
                          make_string(@, value)]
       ELSE [f EXCEPT !.oob = TRUE]
  ELSE [f EXCEPT !.slot.elems[ie].nbEntries = 0]

\* lines 150-158: subsequent occurrence of a key
fill_subsequent(f, key, value, del) ==
  LET ie  == f.indexed_entries[key]
      arr == f.slot.elems[ie]
  IN
  IF ~del
  THEN IF arr.nbEntries < Len(arr.elems)
       THEN [f EXCEPT !.slot.elems[ie].elems[arr.nbEntries + 1] =
                          make_string(@, value),
                      !.slot.elems[ie].nbEntries = arr.nbEntries + 1]
       ELSE [f EXCEPT !.oob = TRUE,
                      !.slot.elems[ie].nbEntries = arr.nbEntries + 1]
  ELSE [f EXCEPT !.slot.elems[ie].nbEntries = 0]

\* pass 2, one round (lines 126-159)
fill_occurrence(f, bag, key, value, del) ==
  LET num_occurr == IF key \in DOMAIN bag THEN bag[key] ELSE 0 IN
  IF num_occurr = 1 THEN fill_single(f, key, value)
  ELSE IF key \notin DOMAIN f.indexed_entries
       THEN fill_first(f, key, value, del, num_occurr)
       ELSE fill_subsequent(f, key, value, del)

RECURSIVE count_pass(_, _)
\* lines 105-114, the whole loop
count_pass(i, bag) ==
  IF iter_ended(i) THEN bag
  ELSE count_pass(iter_next(i), count_occurrence(bag, cur_key(i)))

RECURSIVE fill_pass(_, _, _)
\* lines 125-160, the whole loop
fill_pass(i, bag, f) ==
  IF iter_ended(i) THEN f
  ELSE fill_pass(iter_next(i), bag,
                 fill_occurrence(f, bag, iter_deref(i).key, iter_deref(i).value,
                                 is_delete(i)))

\* the slot after set_value_from_iter(it, slot) has returned
set_value_from_iter(i, s) ==
  LET bag == count_pass(i, EmptyFun) IN
  fill_pass(iter_reset(i), bag, alloc_entries(s, bag)).slot

(* ------------------------------------------------------------------ *)
(* req_serializer: the fixed-shape request and response maps            *)
(* (collection.cpp 57-100, 163-171, 259-376)                            *)
(* ------------------------------------------------------------------ *)
\* lines 82-86
set_map_entry_str(s, key, value) == make_string(set_key(s, key), value)

\* lines 88-100
set_request_query(req, s) ==
  LET s1 == set_key(s, QUERY) IN
  IF Len(req.args) = 0 THEN make_array(s1, 0)
  ELSE set_value_from_iter(query_string_iter(req.args, 38, FALSE), s1)

\* lines 163-166
set_request_uri_raw(req, s) == set_map_entry_str(s, URI_RAW, req.unparsed_uri)

\* lines 168-171
set_request_method(req, s) == set_map_entry_str(s, METHOD, req.method_name)

\* lines 259-265
set_request_headers_nocookies(req, s) ==
  set_value_from_iter(
    header_key_value_iter(TRUE, req.headers_in.headers, cookie),
    set_key(s, HEADERS_NO_COOKIES))

\* dns::key_equals_ci (util.h, not part of the sources)
key_equals_ci(h, name) == LowerStr(h.key) = name

\* lines 267-312; has_cookie is headers_in_has_cookie_v
set_request_cookie(req, s, has_cookie) ==
  LET s1 == set_key(s, COOKIES)
      cookie_headers ==
        IF has_cookie THEN req.headers_in.cookie
        ELSE SelectSeq(req.headers_in.headers,
                       LAMBDA h : ~key_equals_ci(h, cookie))
      iter == qs_iter_agg([j \in 1..Len(cookie_headers) |->
                query_string_iter(cookie_headers[j].value, 59, TRUE)])
  IN  IF iter_ended(iter) THEN make_map(s1, 0)
      ELSE set_value_from_iter(iter, s1)

\* What dereferencing the empty optional at line 327 may do.
UbOutcomes ==
  {[crash |-> TRUE, garbage |-> <<>>],
   [crash |-> FALSE, garbage |-> <<>>],
   [crash |-> FALSE, garbage |-> <<63>>]}

\* lines 314-328.  req.resolved_ip is what ClientIp::resolve() returns.
\* Line 327 runs whether or not an address was resolved.
set_client_ip(req, s, ub) ==
  LET cl_ip == req.resolved_ip
      s1 == set_key(s, CLIENT_IP)
      s2 == IF ~cl_ip.present THEN make_null(s1) ELSE s1
  IN  IF cl_ip.present
      THEN [crashed |-> FALSE, slot |-> make_string(s2, cl_ip.str)]
      ELSE IF ub.crash
      THEN [crashed |-> TRUE, slot |-> s2]
      ELSE [crashed |-> FALSE, slot |-> make_string(s2, ub.garbage)]

\* a plausible slip: the statement status /= 10 (line 363) is left out
status_digits_NoDivide(status) ==
  LET s2 == (status % 10) + 48
      s1 == (status % 10) + 48
      s0 == (status \div 10) + 48
  IN  <<s0, s1, s2>>

\* lines 361-366
status_digits(status) ==
  LET s2  == (status % 10) + 48
      st1 == status \div 10
      s1  == (st1 % 10) + 48
      s0  == (st1 \div 10) + 48
  IN  <<s0, s1, s2>>

\* lines 330-368
set_response_status(req, s) ==
  LET s1 == set_key(s, STATUS)
      status == req.headers_out.status
  IN  CASE status = 200 -> make_string(s1, Str200)
        [] status = 404 -> make_string(s1, Str404)
        [] status = 301 -> make_string(s1, Str301)
        [] status = 302 -> make_string(s1, Str302)
        [] status = 303 -> make_string(s1, Str303)
        [] status = 201 -> make_string(s1, Str201)
        [] OTHER -> IF status < 100 \/ status > 599
                    THEN make_string(s1, Str0)
                    ELSE make_string(s1, status_digits(status))

\* lines 370-376
set_response_headers_no_cookies(req, s) ==
  set_value_from_iter(
    header_key_value_iter(FALSE, req.headers_out.headers, set_cookie),
    set_key(s, RESP_HEADERS_NO_COOKIES))

\* a plausible slip: the cookies are written to entry 3 again, entry 4 is skipped
serialize_SlotSlip(req, has_cookie, ub) ==
  LET root_map == make_map(RawObj, 6)
      ip == set_client_ip(req, root_map.elems[6], ub)
  IN  [crashed |-> ip.crashed,
       root |-> [root_map EXCEPT
                   !.elems[1] = set_request_query(req, @),
                   !.elems[2] = set_request_uri_raw(req, @),
                   !.elems[3] = set_request_method(req, @),
                   !.elems[4] = set_request_cookie(req, @, has_cookie),
                   !.elems[6] = ip.slot]]

\* lines 57-69
serialize(req, has_cookie, ub) ==
  LET root_map == make_map(RawObj, 6)
      ip == set_client_ip(req, root_map.elems[6], ub)
  IN  [crashed |-> ip.crashed,
       root |-> [root_map EXCEPT
                   !.elems[1] = set_request_query(req, @),
                   !.elems[2] = set_request_uri_raw(req, @),
                   !.elems[3] = set_request_method(req, @),
                   !.elems[4] = set_request_headers_nocookies(req, @),
                   !.elems[5] = set_request_cookie(req, @, has_cookie),
                   !.elems[6] = ip.slot]]

\* lines 71-79
serialize_end(req) ==
  LET root_map == make_map(RawObj, 2) IN
  [root_map EXCEPT !.elems[1] = set_response_status(req, @),
                   !.elems[2] = set_response_headers_no_cookies(req, @)]

(* ------------------------------------------------------------------ *)
(* block_resp: content negotiation  (blocking.cpp 72-256)               *)
(* Positions are 0-based as in the code; header[p + 1] is byte p.       *)
(* q-values are in thousandths: 1.0 is 1000.                            *)
(* ------------------------------------------------------------------ *)
\* accept_entry::specificity (77-82)
none == 0
asterisk == 1
partial == 2
full == 3

\* lines 84-87
is_more_specific(a, b) == a > b

\* std::string_view::find of a string: the 1-based index of the first
\* occurrence of pat in sv, 0 for npos
IndexOfStr(sv, pat) ==
  LET hits == {j \in 1..(Len(sv) - Len(pat) + 1) : SubSeq(sv, j, j + Len(pat) - 1) = pat}
  IN  IF hits = {} THEN 0 ELSE CHOOSE j \in hits : \A l \in hits : j <= l

RECURSIVE trim_front(_)
trim_front(sv) ==
  IF Len(sv) > 0 /\ IsSpace(sv[1]) THEN trim_front(Tail(sv)) ELSE sv

RECURSIVE trim_back(_)
trim_back(sv) ==
  IF Len(sv) > 0 /\ IsSpace(sv[Len(sv)])
  THEN trim_back(SubSeq(sv, 1, Len(sv) - 1)) ELSE sv

\* lines 178-186.  front() and back() of an empty view are undefined; the
\* headers of the model keep every type and subtype non-blank, so the loops
\* stop on a byte of the view.
trim(sv) == trim_back(trim_front(sv))

RECURSIVE DigitsLen(_)
DigitsLen(sv) ==
  IF Len(sv) > 0 /\ sv[1] >= 48 /\ sv[1] <= 57 THEN 1 + DigitsLen(Tail(sv)) ELSE 0

RECURSIVE DigitsValue(_)
DigitsValue(sv) ==
  IF sv = <<>> THEN 0 ELSE DigitsValue(SubSeq(sv, 1, Len(sv) - 1)) * 10 + (sv[Len(sv)] - 48)

\* std::strtod on the bytes at sv (line 145), for decimal numbers of the
\* form [spaces][-]digits[.digits] with at most three decimals: the value in
\* thousandths and the number of bytes consumed (0: no conversion, end ==
\* sv.data()).
strtod(sv) ==
  LET ws     == Len(sv) - Len(trim_front(sv))
      s1     == trim_front(sv)
      neg    == Len(s1) > 0 /\ s1[1] = 45
      s2     == IF neg THEN Tail(s1) ELSE s1
      n_int  == DigitsLen(s2)
      s3     == SubSeq(s2, n_int + 1, Len(s2))
      dot    == Len(s3) > 0 /\ s3[1] = 46
      n_frac == IF dot THEN DigitsLen(Tail(s3)) ELSE 0
      frac   == IF dot THEN SubSeq(s3, 2, 1 + n_frac) ELSE <<>>
      frac3  == SubSeq(frac \o <<48, 48, 48>>, 1, 3)
      mag    == DigitsValue(SubSeq(s2, 1, n_int)) * 1000 + DigitsValue(frac3)
  IN  IF n_int + n_frac = 0 THEN [consumed |-> 0, value |-> 0]
      ELSE [consumed |-> ws + (IF neg THEN 1 ELSE 0) + n_int
                          + (IF dot THEN 1 + n_frac ELSE 0),
            value |-> IF neg THEN 0 - mag ELSE mag]

\* accept_entry_iter::find_end (156-164), for an iterator at pos
find_end(header, pos) ==
  LET colon_pos == IndexOf(SubSeq(header, pos + 1, Len(header)), 44) IN
  IF colon_pos = 0 THEN Len(header) ELSE pos + (colon_pos - 1)

\* accept_entry_iter constructor (95-98)
accept_entry_iter(header, pos) ==
  [is_end |-> FALSE, header |-> header, pos |-> pos, pos_end |-> find_end(header, pos)]

\* accept_entry_iter::end() (100-102): the iterator over a null header
accept_entry_iter_end == [is_end |-> TRUE, header |-> <<>>, pos |-> 0, pos_end |-> 0]

\* operator++ (109-118)
accept_iter_increment(i) ==
  IF i.pos_end = Len(i.header) THEN accept_entry_iter_end
  ELSE accept_entry_iter(i.header, i.pos_end + 1)

\* operator* (120-153); strtod reads on from the q value into the header
accept_iter_deref(i) ==
  LET sv == SubSeq(i.header, i.pos + 1, i.pos_end)
      slash == IndexOf(sv, 47)
      sv2 == SubSeq(sv, slash + 1, Len(sv))
      semicolon == IndexOf(sv2, 59)
      sv3 == SubSeq(sv2, semicolon + 1, Len(sv2))
      q == IndexOfStr(sv3, StrQEq)
      num == strtod(SubSeq(i.header, i.pos + slash + semicolon + q + 2, Len(i.header)))
  IN
  IF slash = 0 THEN [type |-> <<>>, subtype |-> <<>>, qvalue |-> 1000]
  ELSE IF semicolon = 0
  THEN [type |-> trim(SubSeq(sv, 1, slash - 1)), subtype |-> trim(sv2), qvalue |-> 1000]
  ELSE [type |-> trim(SubSeq(sv, 1, slash - 1)),
        subtype |-> trim(SubSeq(sv2, 1, semicolon - 1)),
        qvalue |-> IF q # 0 /\ (q = 1 \/ sv3[q - 1] = 32)
                   THEN IF num.consumed = 0 \/ num.value <= 0 \/ num.value > 1000
                        THEN 1000 ELSE num.value
                   ELSE 1000]

\* lines 196-202
best_init ==
  [json_spec |-> none, html_spec |-> none, json_qvalue |-> 0, json_pos |-> 0,
   html_qvalue |-> 0, html_pos |-> 0]

set_json(b, spec, ae, pos) ==
  IF is_more_specific(spec, b.json_spec)
  THEN [b EXCEPT !.json_spec = spec, !.json_qvalue = ae.qvalue, !.json_pos = pos]
  ELSE b

\* a plausible slip: >= for >, so a tie replaces the candidate's record
set_html_TieUpdates(b, spec, ae, pos) ==
  IF spec >= b.html_spec
  THEN [b EXCEPT !.html_spec = spec, !.html_qvalue = ae.qvalue, !.html_pos = pos]
  ELSE b

set_html(b, spec, ae, pos) ==
  IF is_more_specific(spec, b.html_spec)
  THEN [b EXCEPT !.html_spec = spec, !.html_qvalue = ae.qvalue, !.html_pos = pos]
  ELSE b

\* lines 205-242: one round of the loop, for the entry ae at position pos
scan_entry(b, ae, pos) ==
  IF ae.type = StrStar /\ ae.subtype = StrStar
  THEN set_html(set_json(b, asterisk, ae, pos), asterisk, ae, pos)
  ELSE IF ae.type = StrText /\ ae.subtype = StrStar THEN set_html(b, partial, ae, pos)
  ELSE IF ae.type = StrText /\ ae.subtype = StrHtml THEN set_html(b, full, ae, pos)
  ELSE IF ae.type = StrApplication /\ ae.subtype = StrStar THEN set_json(b, partial, ae, pos)
  ELSE IF ae.type = StrApplication /\ ae.subtype = StrJson THEN set_json(b, full, ae, pos)
  ELSE b

\* a plausible slip: on a tie the later candidate wins
decide_ct_TieLater(b) ==
  IF b.html_qvalue > b.json_qvalue THEN "HTML"
  ELSE IF b.json_qvalue > b.html_qvalue THEN "JSON"
  ELSE IF b.html_pos > b.json_pos THEN "HTML"
  ELSE "JSON"

\* lines 245-254
decide_ct(b) ==
  IF b.html_qvalue > b.json_qvalue THEN "HTML"
  ELSE IF b.json_qvalue > b.html_qvalue THEN "JSON"
  ELSE IF b.html_pos < b.json_pos THEN "HTML"
  ELSE "JSON"

RECURSIVE scan_all(_, _, _)
\* lines 204-243, the whole loop
scan_all(i, b, pos) ==
  IF i.is_end THEN b
  ELSE scan_all(accept_iter_increment(i), scan_entry(b, accept_iter_deref(i), pos), pos + 1)

\* lines 189-255
determine_ct(acc) ==
  IF ~acc.present THEN "JSON"
  ELSE decide_ct(scan_all(accept_entry_iter(acc.value, 0), best_init, 0))

(* ------------------------------------------------------------------ *)
(* The Accept headers negotiated, and determine_ct step by step         *)
(* ------------------------------------------------------------------ *)
AcceptSegments ==
  {SegHtml, SegJson, SegJson09, SegHtml05, SegTextAny, SegAppAny05, SegAny,
   SegPng, SegNoSlash, SegSpJson, SegHtmlLevelQ05, SegJsonQ2}

RECURSIVE JoinSegments(_)
JoinSegments(segs) ==
  IF segs = <<>> THEN <<>>
  ELSE IF Len(segs) = 1 THEN segs[1]
  ELSE segs[1] \o <<44>> \o JoinSegments(Tail(segs))

NoAccept == [present |-> FALSE, value |-> <<>>]

AcceptOf(segs) == [present |-> TRUE, value |-> JoinSegments(segs)]

CtIdle ==
  /\ accept = NoAccept
  /\ ct_it = accept_entry_iter_end
  /\ best = best_init
  /\ ct_pos = 0
  /\ ct_result = "none"
  /\ ct_pc = "idle"

(* ------------------------------------------------------------------ *)
(* blocking_service  (blocking.cpp 22-70, 258-401)                      *)
(* An ngx_str_t is [len, data]; data names the bytes.                   *)
(* ------------------------------------------------------------------ *)
\* nginx return codes, as block uses them (335-356)
NGX_OK == 0
NGX_ERROR == 0 - 1
NGX_AGAIN == 0 - 2
NGX_DONE == 0 - 4

EmptyStr == [len |-> 0, data |-> ""]

\* lines 258-283
default_template_html == [len |-> 1460, data |-> "default_template_html"]

\* lines 285-288
default_template_json == [len |-> 167, data |-> "default_template_json"]

\* the template files on disk: path -> str, the contents, and got, the bytes
\* a read delivers before it ends (all of them unless the read fails; none
\* for /tmpl/unreadable, which opens and cannot be read, as a directory does)
TemplateFiles ==
  [p \in {"/tmpl/block.html", "/tmpl/block.json", "/tmpl/unreadable"} |->
     IF p = "/tmpl/block.html"
     THEN [str |-> [len |-> 16, data |-> "<h1>blocked</h1>"],
           got |-> [len |-> 16, data |-> "<h1>blocked</h1>"]]
     ELSE IF p = "/tmpl/block.json"
     THEN [str |-> [len |-> 14, data |-> "{blocked:true}"],
           got |-> [len |-> 14, data |-> "{blocked:true}"]]
     ELSE [str |-> [len |-> 16, data |-> "<h1>blocked</h1>"], got |-> EmptyStr]]

NoPath == [present |-> FALSE, path |-> ""]

\* the paths initialize is called with, for the HTML and the JSON template
HtmlTemplatePaths ==
  {NoPath} \cup {[present |-> TRUE, path |-> p] :
                   p \in {"/tmpl/block.html", "/tmpl/unreadable", "/tmpl/missing"}}

JsonTemplatePaths ==
  {NoPath} \cup {[present |-> TRUE, path |-> p] :
                   p \in {"/tmpl/block.json", "/tmpl/missing"}}

\* lines 377-388: only the open is tested (378); s << fileStream.rdbuf()
\* (385) copies what the read delivers and the stream state is not looked at
load_template(path) ==
  IF path \in DOMAIN TemplateFiles
  THEN [ok |-> TRUE, str |-> TemplateFiles[path].got, error |-> "none"]
  ELSE [ok |-> FALSE, str |-> EmptyStr, error |-> "Failed to open file"]

NoInstance ==
  [present |-> FALSE, templ_html |-> EmptyStr, templ_json |-> EmptyStr,
   custom_templ_html |-> EmptyStr, custom_templ_json |-> EmptyStr]

\* the constructor, lines 359-375; a failed load_template throws out of it
blocking_service_new(templ_html_path, templ_json_path) ==
  LET lh == load_template(templ_html_path.path)
      lj == load_template(templ_json_path.path)
  IN  IF templ_html_path.present /\ ~lh.ok
      THEN [ok |-> FALSE, error |-> lh.error, obj |-> NoInstance]
      ELSE IF templ_json_path.present /\ ~lj.ok
      THEN [ok |-> FALSE, error |-> lj.error, obj |-> NoInstance]
      ELSE [ok |-> TRUE, error |-> "none",
            obj |-> [present |-> TRUE,
                     templ_html |-> IF ~templ_html_path.present
                                    THEN default_template_html ELSE lh.str,
                     templ_json |-> IF ~templ_json_path.present
                                    THEN default_template_json ELSE lj.str,
                     custom_templ_html |-> IF templ_html_path.present
                                           THEN lh.str ELSE EmptyStr,
                     custom_templ_json |-> IF templ_json_path.present
                                           THEN lj.str ELSE EmptyStr]]

\* a plausible slip: the check of line 298 is missing
initialize_NoGuard(inst, templ_html, templ_json) ==
  LET made == blocking_service_new(templ_html, templ_json) IN
  IF made.ok THEN [instance |-> made.obj, error |-> "none"]
  ELSE [instance |-> inst, error |-> made.error]

\* lines 296-303: the instance and the exception after initialize
initialize(inst, templ_html, templ_json) ==
  IF inst.present
  THEN [instance |-> inst, error |-> "Blocking service already initialized"]
  ELSE LET made == blocking_service_new(templ_html, templ_json) IN
       IF made.ok THEN [instance |-> made.obj, error |-> "none"]
       ELSE [instance |-> inst, error |-> made.error]

\* lines 36-59
calculate_for(spec, req) ==
  [status |-> spec.status,
   ct |-> CASE spec.ct = "AUTO" -> determine_ct(req.accept)
            [] spec.ct = "HTML" -> "HTML"
            [] spec.ct = "JSON" -> "JSON"
            [] OTHER -> "NONE",
   location |-> spec.location]

\* lines 61-70
content_type_header(ct) ==
  CASE ct = "HTML" -> [len |-> 23, data |-> "text/html;charset=utf-8"]
    [] ct = "JSON" -> [len |-> 16, data |-> "application/json"]
    [] OTHER -> EmptyStr

NullTempl == [null |-> TRUE, str |-> EmptyStr]

\* a plausible slip: the else branch of lines 312-314 is missing
select_template_NoHeaderOnly(inst, ct, req) ==
  [templ |-> IF ct = "HTML" THEN [null |-> FALSE, str |-> inst.templ_html]
             ELSE IF ct = "JSON" THEN [null |-> FALSE, str |-> inst.templ_json]
             ELSE NullTempl,
   header_only |-> req.header_only]

\* lines 307-314: the template pointer and req.header_only
select_template(inst, ct, req) ==
  [templ |-> IF ct = "HTML" THEN [null |-> FALSE, str |-> inst.templ_html]
             ELSE IF ct = "JSON" THEN [null |-> FALSE, str |-> inst.templ_json]
             ELSE NullTempl,
   header_only |-> IF ct \in {"HTML", "JSON"} THEN req.header_only ELSE 1]

\* a call into nginx: rc is the code handed to ngx_http_finalize_request, the
\* value ngx_http_send_header returned, or the number of buffers
\* ngx_calloc_buf returned; buf is the buffer handed to the output filter
Call(fn, rc, buf) == [fn |-> fn, rc |-> rc, buf |-> buf]

NoBuf == [pos |-> "", len |-> 0, last_buf |-> 0, memory |-> 0]

\* lines 390-401; push_ok: ngx_list_push returned an element
push_header(headers, name, value, push_ok) ==
  IF push_ok THEN Append(headers, [key |-> name, value |-> value, hash |-> 1])
  ELSE headers

\* lines 316-336: the response headers, then ngx_http_send_header.  ext is
\* what nginx answers: push_ok (ngx_list_push), send_res
\* (ngx_http_send_header), filter_header_only (a header filter set
\* req.header_only), calloc_ok (ngx_calloc_buf).
block_headers(req, resp, sel, ext) ==
  [req EXCEPT
     !.header_only = IF ext.filter_header_only THEN 1 ELSE sel.header_only,
     !.headers_out.status = resp.status,
     !.headers_out.content_type = content_type_header(resp.ct),
     !.headers_out.content_type_len = content_type_header(resp.ct).len,
     !.headers_out.headers =
        IF Len(resp.location) # 0
        THEN push_header(req.headers_out.headers, Location, resp.location, ext.push_ok)
        ELSE req.headers_out.headers,
     !.headers_out.content_length_n =
        IF ~sel.templ.null THEN sel.templ.str.len ELSE 0]

\* lines 316 and 334
block_calls(ext) == <<Call("ngx_http_discard_request_body", 0, NoBuf),
                      Call("ngx_http_send_header", ext.send_res, NoBuf)>>

\* a plausible slip: the return of line 337 is missing, so block goes on to
\* the body after it has finalized the request
block_body_NoReturnAfterHeader(templ, req2, ext) ==
  LET head == IF ext.send_res = NGX_ERROR \/ ext.send_res > NGX_OK \/ req2.header_only # 0
              THEN Append(block_calls(ext),
                          Call("ngx_http_finalize_request", ext.send_res, NoBuf))
              ELSE block_calls(ext)
  IN
  IF ~ext.calloc_ok
  THEN [req |-> req2, crashed |-> FALSE,
        calls |-> head \o <<Call("ngx_calloc_buf", 0, NoBuf),
                            Call("ngx_http_finalize_request", NGX_ERROR, NoBuf)>>]
  ELSE IF templ.null
  THEN [req |-> req2, crashed |-> TRUE,
        calls |-> Append(head, Call("ngx_calloc_buf", 1, NoBuf))]
  ELSE [req |-> req2, crashed |-> FALSE,
        calls |-> head \o
          <<Call("ngx_calloc_buf", 1, NoBuf),
            Call("ngx_http_output_filter", 0,
                 [pos |-> templ.str.data, len |-> templ.str.len,
                  last_buf |-> 1, memory |-> 1]),
            Call("ngx_http_finalize_request", NGX_DONE, NoBuf)>>]

\* a plausible slip: line 335 without the test of req.header_only
block_body_NoHeaderOnlyTest(templ, req2, ext) ==
  IF ext.send_res = NGX_ERROR \/ ext.send_res > NGX_OK
  THEN [req |-> req2, crashed |-> FALSE,
        calls |-> Append(block_calls(ext),
                         Call("ngx_http_finalize_request", ext.send_res, NoBuf))]
  ELSE IF ~ext.calloc_ok
  THEN [req |-> req2, crashed |-> FALSE,
        calls |-> block_calls(ext) \o
          <<Call("ngx_calloc_buf", 0, NoBuf),
            Call("ngx_http_finalize_request", NGX_ERROR, NoBuf)>>]
  ELSE IF templ.null
  THEN \* line 346 reads through the null template pointer
       [req |-> req2, crashed |-> TRUE,
        calls |-> Append(block_calls(ext), Call("ngx_calloc_buf", 1, NoBuf))]
  ELSE [req |-> req2, crashed |-> FALSE,
        calls |-> block_calls(ext) \o
          <<Call("ngx_calloc_buf", 1, NoBuf),
            Call("ngx_http_output_filter", 0,
                 [pos |-> templ.str.data, len |-> templ.str.len,
                  last_buf |-> 1, memory |-> 1]),
            Call("ngx_http_finalize_request", NGX_DONE, NoBuf)>>]

\* lines 335-357: the result of ngx_http_send_header, then the body
block_body(templ, req2, ext) ==
  IF ext.send_res = NGX_ERROR \/ ext.send_res > NGX_OK \/ req2.header_only # 0
  THEN [req |-> req2, crashed |-> FALSE,
        calls |-> Append(block_calls(ext),
                         Call("ngx_http_finalize_request", ext.send_res, NoBuf))]
  ELSE IF ~ext.calloc_ok
  THEN [req |-> req2, crashed |-> FALSE,
        calls |-> block_calls(ext) \o
          <<Call("ngx_calloc_buf", 0, NoBuf),
            Call("ngx_http_finalize_request", NGX_ERROR, NoBuf)>>]
  ELSE IF templ.null
  THEN \* line 346 reads through the null template pointer
       [req |-> req2, crashed |-> TRUE,
        calls |-> Append(block_calls(ext), Call("ngx_calloc_buf", 1, NoBuf))]
  ELSE [req |-> req2, crashed |-> FALSE,
        calls |-> block_calls(ext) \o
          <<Call("ngx_calloc_buf", 1, NoBuf),
            Call("ngx_http_output_filter", 0,
                 [pos |-> templ.str.data, len |-> templ.str.len,
                  last_buf |-> 1, memory |-> 1]),
            Call("ngx_http_finalize_request", NGX_DONE, NoBuf)>>]

\* lines 307-357, for the response resp that line 305 computed
block_response(inst, resp, req, ext) ==
  block_body(select_template(inst, resp.ct, req).templ,
             block_headers(req, resp, select_template(inst, resp.ct, req), ext),
             ext)

\* lines 305-357
block(inst, spec, req, ext) == block_response(inst, calculate_for(spec, req), req, ext)

BlockSpecs ==
  [status : {403}, ct : {"AUTO", "HTML", "JSON", "NONE"}, location : {<<>>}]
  \cup [status : {301}, ct : {"AUTO", "HTML", "JSON", "NONE"}, location : {LocationUrl}]

BlockAccepts ==
  {NoAccept, AcceptOf(<<SegHtml, SegJson09>>), AcceptOf(<<SegAny>>), AcceptOf(<<SegJson>>)}

\* the request as block receives it
BlockRequest(acc, header_only) ==
  [accept |-> acc, header_only |-> header_only,
   headers_out |-> [status |-> 0, content_type |-> EmptyStr, content_type_len |-> 0,
                    content_length_n |-> 0 - 1, headers |-> <<>>]]

NginxAnswers ==
  [push_ok : BOOLEAN, send_res : {NGX_OK, NGX_ERROR, NGX_AGAIN, 500},
   filter_header_only : BOOLEAN, calloc_ok : BOOLEAN]

BlkIdle ==
  /\ instance = NoInstance
  /\ init_calls = 0
  /\ init_error = "none"
  /\ init_args = [templ_html |-> NoPath, templ_json |-> NoPath]
  /\ blk_in = [spec |-> [status |-> 403, ct |-> "AUTO", location |-> <<>>],
               req |-> BlockRequest(NoAccept, 0)]
  /\ blk_req = BlockRequest(NoAccept, 0)
  /\ blk_calls = <<>>
  /\ blk_pc = "idle"

(* ------------------------------------------------------------------ *)
(* The requests handed to the serializer                                *)
(* ------------------------------------------------------------------ *)
HostHeader == [key |-> HdrHost, value |-> ValHost, hash |-> 1]
CookieHeader1 == [key |-> HdrCookie, value |-> CookieX1Y2, hash |-> 1]
CookieHeader2 == [key |-> HdrCookie, value |-> CookieX3, hash |-> 1]

RequestArgs == {<<>>, QueryA1, QueryA1A2B3}

RequestHeaderLists ==
  {<<>>, <<HostHeader>>, <<CookieHeader1, HostHeader>>,
   <<HostHeader, CookieHeader1, CookieHeader2>>}

ResolvedIps == {[present |-> FALSE, str |-> <<>>], [present |-> TRUE, str |-> Ip1]}

ResponseStatuses == (0..MaxStatus) \cup {999}

ResponseHeaderLists ==
  {<<>>,
   <<[key |-> HdrLowerA, value |-> Val1, hash |-> 1]>>,
   <<[key |-> HdrSetCookie, value |-> Val1, hash |-> 1],
     [key |-> HdrUpperA, value |-> Val2, hash |-> 0]>>}

\* nginx links the Cookie headers of the request into headers_in.cookie
MakeRequest(args, headers, ip, status, out_headers) ==
  [args |-> args, unparsed_uri |-> UriRoot, method_name |-> MethodGet,
   headers_in |-> [headers |-> headers,
                   cookie |-> SelectSeq(headers, LAMBDA h : LowerStr(h.key) = cookie)],
   resolved_ip |-> ip,
   headers_out |-> [status |-> status, headers |-> out_headers]]

NoRequest == MakeRequest(<<>>, <<>>, [present |-> FALSE, str |-> <<>>], 0, <<>>)

SerIdle ==
  /\ headers_in_has_cookie_v = TRUE
  /\ request = NoRequest
  /\ root = RawObj
  /\ ser_pc = "idle"

AggIdle ==
  /\ it = header_key_value_iter(TRUE, <<>>, cookie)
  /\ keys_bag = EmptyFun
  /\ slot = RawObj
  /\ next_free_entry = 0
  /\ indexed_entries = EmptyFun
  /\ oob = FALSE
  /\ agg_pc = "idle"

\* the requests serialized: request-time inputs with a default response part,
\* and response-time inputs with a default request part
SerRequests ==
  {MakeRequest(args, headers, ip, 0, <<>>) :
     args \in RequestArgs, headers \in RequestHeaderLists, ip \in ResolvedIps}
  \cup
  {MakeRequest(<<>>, <<>>, [present |-> FALSE, str |-> <<>>], status, out_headers) :
     status \in ResponseStatuses, out_headers \in ResponseHeaderLists}

SerInit ==
  /\ headers_in_has_cookie_v \in BOOLEAN
  /\ request \in SerRequests
  /\ root = RawObj
  /\ ser_pc = "idle"
  /\ AggIdle
  /\ CtIdle
  /\ BlkIdle

\* collect_request_data (385-389) on the request
CollectRequestData ==
  /\ ser_pc = "idle"
  /\ \E ub \in UbOutcomes :
       LET res == serialize(request, headers_in_has_cookie_v, ub) IN
       IF res.crashed
       THEN ser_pc' = "crashed" /\ root' = RawObj
       ELSE ser_pc' = "serialize" /\ root' = res.root
  /\ UNCHANGED <<headers_in_has_cookie_v, request, agg_vars, ct_vars, blk_vars>>

\* collect_response_data (391-395) on the request, once it has a response
CollectResponseData ==
  /\ ser_pc \in {"idle", "serialize"}
  /\ root' = serialize_end(request)
  /\ ser_pc' = "serialize_end"
  /\ UNCHANGED <<headers_in_has_cookie_v, request, agg_vars, ct_vars, blk_vars>>

SerNext == CollectRequestData \/ CollectResponseData

SpecSer == SerInit /\ [][SerNext]_vars

(* ------------------------------------------------------------------ *)
(* The aggregation of one header list, step by step                     *)
(* ------------------------------------------------------------------ *)
ReqHeaderNames == {HdrUpperA, HdrLowerA, HdrLowerB, HdrCookie}
RespHeaderNames == {HdrLowerA, HdrLowerB, HdrSetCookie}
HeaderValues == {Val1, Val2}

ReqHeaders == [key : ReqHeaderNames, value : HeaderValues, hash : {1}]
RespHeaders == [key : RespHeaderNames, value : HeaderValues, hash : {0, 1}]

\* set_request_headers_nocookies (259-265) up to the call of set_value_from_iter
StartRequestHeaders(list) ==
  /\ slot = set_key(RawObj, HEADERS_NO_COOKIES)
  /\ it = header_key_value_iter(TRUE, list, cookie)

\* set_response_headers_no_cookies (370-376) up to the call
StartResponseHeaders(list) ==
  /\ slot = set_key(RawObj, RESP_HEADERS_NO_COOKIES)
  /\ it = header_key_value_iter(FALSE, list, set_cookie)

AggInit ==
  /\ \/ \E list \in BoundedSeq(ReqHeaders, MaxHeaders) : StartRequestHeaders(list)
     \/ \E list \in BoundedSeq(RespHeaders, MaxHeaders) : StartResponseHeaders(list)
  /\ keys_bag = EmptyFun
  /\ next_free_entry = 0
  /\ indexed_entries = EmptyFun
  /\ oob = FALSE
  /\ agg_pc = "count"
  /\ SerIdle
  /\ CtIdle
  /\ BlkIdle

\* lines 106-114
CountStep ==
  /\ agg_pc = "count"
  /\ ~iter_ended(it)
  /\ keys_bag' = count_occurrence(keys_bag, cur_key(it))
  /\ it' = iter_next(it)
  /\ UNCHANGED <<slot, next_free_entry, indexed_entries, oob, agg_pc, ser_vars, ct_vars, blk_vars>>

\* lines 116-125: the counting loop has ended; allocate and reset
AllocAndReset ==
  /\ agg_pc = "count"
  /\ iter_ended(it)
  /\ LET f == alloc_entries(slot, keys_bag) IN
       /\ slot' = f.slot
       /\ next_free_entry' = f.next_free_entry
       /\ indexed_entries' = f.indexed_entries
       /\ oob' = f.oob
  /\ it' = iter_reset(it)
  /\ agg_pc' = "fill"
  /\ UNCHANGED <<keys_bag, ser_vars, ct_vars, blk_vars>>

\* lines 125-160, one round
FillStep ==
  /\ agg_pc = "fill"
  /\ ~iter_ended(it)
  /\ LET kv == iter_deref(it)
         f  == fill_occurrence(
                 [slot |-> slot, next_free_entry |-> next_free_entry,
                  indexed_entries |-> indexed_entries, oob |-> oob],
                 keys_bag, kv.key, kv.value, is_delete(it))
     IN
       /\ slot' = f.slot
       /\ next_free_entry' = f.next_free_entry
       /\ indexed_entries' = f.indexed_entries
       /\ oob' = f.oob
  /\ it' = iter_next(it)
  /\ UNCHANGED <<keys_bag, agg_pc, ser_vars, ct_vars, blk_vars>>

\* line 125: the fill loop has ended
FillDone ==
  /\ agg_pc = "fill"
  /\ iter_ended(it)
  /\ agg_pc' = "done"
  /\ UNCHANGED <<it, keys_bag, slot, next_free_entry, indexed_entries, oob, ser_vars, ct_vars, blk_vars>>

AggNext == CountStep \/ AllocAndReset \/ FillStep \/ FillDone

SpecAgg == AggInit /\ [][AggNext]_vars

(* ------------------------------------------------------------------ *)
(* determine_ct, one round of the loop at a time                        *)
(* ------------------------------------------------------------------ *)
CtInit ==
  /\ accept \in {NoAccept} \cup {AcceptOf(segs) : segs \in BoundedSeq(AcceptSegments, MaxSegments)}
  /\ ct_it = accept_entry_iter_end
  /\ best = best_init
  /\ ct_pos = 0
  /\ ct_result = "none"
  /\ ct_pc = "start"
  /\ AggIdle
  /\ SerIdle
  /\ BlkIdle

\* lines 190-192
CtNoAccept ==
  /\ ct_pc = "start"
  /\ ~accept.present
  /\ ct_result' = "JSON"
  /\ ct_pc' = "done"
  /\ UNCHANGED <<accept, ct_it, best, ct_pos, agg_vars, ser_vars, blk_vars>>

\* lines 194-204: the iterator and the candidates are set up
CtBegin ==
  /\ ct_pc = "start"
  /\ accept.present
  /\ ct_it' = accept_entry_iter(accept.value, 0)
  /\ best' = best_init
  /\ ct_pos' = 0
  /\ ct_pc' = "scan"
  /\ UNCHANGED <<accept, ct_result, agg_vars, ser_vars, blk_vars>>

\* lines 204-243, one round
CtScanStep ==
  /\ ct_pc = "scan"
  /\ ~ct_it.is_end
  /\ best' = scan_entry(best, accept_iter_deref(ct_it), ct_pos)
  /\ ct_it' = accept_iter_increment(ct_it)
  /\ ct_pos' = ct_pos + 1
  /\ UNCHANGED <<accept, ct_result, ct_pc, agg_vars, ser_vars, blk_vars>>

\* lines 245-254
CtDecide ==
  /\ ct_pc = "scan"
  /\ ct_it.is_end
  /\ ct_result' = decide_ct(best)
  /\ ct_pc' = "done"
  /\ UNCHANGED <<accept, ct_it, best, ct_pos, agg_vars, ser_vars, blk_vars>>

CtNext == CtNoAccept \/ CtBegin \/ CtScanStep \/ CtDecide

SpecCt == CtInit /\ [][CtNext]_vars

(* ------------------------------------------------------------------ *)
(* The blocking service: initialize and block                           *)
(* ------------------------------------------------------------------ *)
BlkInit ==
  /\ instance = NoInstance
  /\ init_calls = 0
  /\ init_error = "none"
  /\ init_args = [templ_html |-> NoPath, templ_json |-> NoPath]
  /\ \E spec \in BlockSpecs, acc \in BlockAccepts, ho \in {0, 1} :
       /\ blk_in = [spec |-> spec, req |-> BlockRequest(acc, ho)]
       /\ blk_req = BlockRequest(acc, ho)
  /\ blk_calls = <<>>
  /\ blk_pc = "pending"
  /\ AggIdle
  /\ SerIdle
  /\ CtIdle

\* blocking_service::initialize(templ_html, templ_json)
Initialize ==
  /\ init_calls < MaxInitCalls
  /\ blk_pc # "crashed"
  /\ \E templ_html \in HtmlTemplatePaths, templ_json \in JsonTemplatePaths :
       LET r == initialize(instance, templ_html, templ_json) IN
       /\ instance' = r.instance
       /\ init_error' = r.error
       /\ init_args' = [templ_html |-> templ_html, templ_json |-> templ_json]
  /\ init_calls' = init_calls + 1
  /\ UNCHANGED <<blk_in, blk_req, blk_calls, blk_pc, agg_vars, ser_vars, ct_vars>>

\* blocking_service::block(spec, req) on the published instance
Block ==
  /\ blk_pc = "pending"
  /\ instance.present
  /\ \E ext \in NginxAnswers :
       LET r == block(instance, blk_in.spec, blk_in.req, ext) IN
       /\ blk_req' = r.req
       /\ blk_calls' = r.calls
       /\ blk_pc' = IF r.crashed THEN "crashed" ELSE "blocked"
  /\ UNCHANGED <<instance, init_calls, init_error, init_args, blk_in, agg_vars, ser_vars, ct_vars>>

BlkNext == Initialize \/ Block

SpecBlk == BlkInit /\ [][BlkNext]_vars

(* ------------------------------------------------------------------ *)
(* What a source yields, read off the iterator alone                    *)
(* ------------------------------------------------------------------ *)
RECURSIVE YieldedFrom(_)
YieldedFrom(i) ==
  IF iter_ended(i) THEN <<>>
  ELSE <<[key |-> cur_key(i), value |-> iter_deref(i).value,
          del |-> is_delete(i)]>> \o YieldedFrom(iter_next(i))

\* the (key, value, is-deleted) triples of the source, in source order
Yielded(i) == YieldedFrom(iter_reset(i))

KeysOf(ys) == {ys[j].key : j \in 1..Len(ys)}

OccurrencesOf(ys, k) == SelectSeq(ys, LAMBDA y : y.key = k)

\* the entries of map node m whose key is k
EntriesFor(m, k) == {e \in 1..Len(m.elems) : m.elems[e].hasKey /\ m.elems[e].key = k}

NoDeletes(ys) == \A j \in 1..Len(ys) : ~ys[j].del

\* C1: a source without delete-marked occurrences aggregates to a map with
\* one entry per distinct key; a key occurring once has a scalar string with
\* its value, a key occurring m > 1 times an array of length m holding its
\* values in source order.
C1_AggregationNoDeletes ==
  (agg_pc = "done" /\ NoDeletes(Yielded(it))) =>
    LET ys == Yielded(it) IN
    /\ ~oob
    /\ slot.type = "Map"
    /\ slot.nbEntries = Cardinality(KeysOf(ys))
    /\ Len(slot.elems) = Cardinality(KeysOf(ys))
    /\ \A e \in 1..Len(slot.elems) :
         slot.elems[e].hasKey /\ slot.elems[e].key \in KeysOf(ys)
    /\ \A k \in KeysOf(ys) :
         LET occ == OccurrencesOf(ys, k) IN
         /\ Cardinality(EntriesFor(slot, k)) = 1
         /\ \A e \in EntriesFor(slot, k) :
              IF Len(occ) = 1
              THEN /\ slot.elems[e].type = "String"
                   /\ slot.elems[e].str = occ[1].value
              ELSE /\ slot.elems[e].type = "Array"
                   /\ slot.elems[e].nbEntries = Len(occ)
                   /\ Len(slot.elems[e].elems) = Len(occ)
                   /\ \A j \in 1..Len(occ) :
                        /\ slot.elems[e].elems[j].type = "String"
                        /\ slot.elems[e].elems[j].str = occ[j].value

\* C1 witness: three pairs, two distinct keys, no deletes; one key occurs
\* twice with different values, the other once.
C1_Witness ==
  /\ agg_pc = "done"
  /\ NoDeletes(Yielded(it))
  /\ Len(Yielded(it)) = 3
  /\ Cardinality(KeysOf(Yielded(it))) = 2
  /\ \E k \in KeysOf(Yielded(it)) :
       LET occ == OccurrencesOf(Yielded(it), k) IN
       /\ Len(occ) = 2
       /\ occ[1].value # occ[2].value
       /\ \E e \in EntriesFor(slot, k) : slot.elems[e].nbEntries = 2

\* C2: a key whose every occurrence is delete-marked, a single occurrence
\* included, is present in the map as an array entry of length 0.
C2_AllDeletedIsEmptyArray ==
  agg_pc = "done" =>
    \A k \in KeysOf(Yielded(it)) :
      (\A j \in 1..Len(OccurrencesOf(Yielded(it), k)) :
          OccurrencesOf(Yielded(it), k)[j].del)
      => /\ EntriesFor(slot, k) # {}
         /\ \A e \in EntriesFor(slot, k) :
              slot.elems[e].type = "Array" /\ slot.elems[e].nbEntries = 0

\* C4: the headers-without-cookies view never yields an occurrence whose
\* lower-cased name is the excluded name, in the counting pass and in the
\* fill pass, and the aggregated map has no entry with that key.
C4_ExcludedNeverYielded ==
  /\ (agg_pc \in {"count", "fill"} /\ ~iter_ended(it)) => cur_key(it) # it.exclude
  /\ agg_pc = "done" => EntriesFor(slot, it.exclude) = {}

\* position of the last delete-marked occurrence in occ, 0 if there is none
LastDelete(occ) ==
  IF \E j \in 1..Len(occ) : occ[j].del
  THEN CHOOSE j \in 1..Len(occ) : occ[j].del /\ \A l \in (j + 1)..Len(occ) : ~occ[l].del
  ELSE 0

\* the occurrences that come after the last delete-marked one
LiveAfterLastDelete(occ) == SubSeq(occ, LastDelete(occ) + 1, Len(occ))

\* C11: for every key occurring more than once, the array written for the
\* key when the fill pass has ended holds exactly the values of the
\* occurrences that come after the key's last delete-marked occurrence (all
\* of them if none is deleted), in source order, also when the key's first
\* occurrence is the deleted one.
C11_ArrayAfterLastDelete ==
  agg_pc = "done" =>
    \A k \in KeysOf(Yielded(it)) :
      LET occ  == OccurrencesOf(Yielded(it), k)
          live == LiveAfterLastDelete(occ)
      IN  Len(occ) > 1 =>
            /\ EntriesFor(slot, k) # {}
            /\ \A e \in EntriesFor(slot, k) :
                 /\ slot.elems[e].type = "Array"
                 /\ slot.elems[e].nbEntries = Len(live)
                 /\ Len(live) <= Len(slot.elems[e].elems)
                 /\ \A j \in 1..Len(live) :
                      /\ slot.elems[e].elems[j].type = "String"
                      /\ slot.elems[e].elems[j].str = live[j].value

\* C16: at every step of the fill pass, for any source with duplicates and
\* delete-marked occurrences, the index written into a key's array is below
\* the capacity allocated for it (the key's count of pass 1), the number of
\* map entries handed out never exceeds the distinct-key count of pass 1,
\* and when the pass ends it equals that count.
C16_FillWithinCapacity ==
  /\ (agg_pc = "fill" /\ ~iter_ended(it)) =>
       LET key == cur_key(it) IN
       (key \in DOMAIN indexed_entries /\ ~is_delete(it)) =>
         /\ slot.elems[indexed_entries[key]].nbEntries < keys_bag[key]
         /\ keys_bag[key] = Len(slot.elems[indexed_entries[key]].elems)
  /\ agg_pc \in {"fill", "done"} =>
       /\ ~oob
       /\ next_free_entry <= Cardinality(DOMAIN keys_bag)
  /\ agg_pc = "done" => next_free_entry = Cardinality(DOMAIN keys_bag)

(* ------------------------------------------------------------------ *)
(* Claims about the request and response maps (SpecSer)                 *)
(* ------------------------------------------------------------------ *)
\* C3: the sixth entry of the request map has key http.client_ip; it is a
\* Null node when the resolver returned no address, and a String holding a
\* copy of the address when it returned one.
C3_ClientIpEntry ==
  ser_pc = "serialize" =>
    /\ root.elems[6].hasKey /\ root.elems[6].key = CLIENT_IP
    /\ IF request.resolved_ip.present
       THEN root.elems[6].type = "String" /\ root.elems[6].str = request.resolved_ip.str
       ELSE root.elems[6].type = "Null"

IsDigit(c) == c >= 48 /\ c <= 57

DecimalValue(s) == (s[1] - 48) * 100 + (s[2] - 48) * 10 + (s[3] - 48)

\* C6: the status entry is a String: the three-digit decimal text of the
\* status when 100 <= status <= 599, and "0" for every other status.
C6_StatusText ==
  ser_pc = "serialize_end" =>
    LET status == request.headers_out.status
        e == root.elems[1]
    IN  /\ e.type = "String"
        /\ IF 100 <= status /\ status <= 599
           THEN /\ Len(e.str) = 3
                /\ \A j \in 1..3 : IsDigit(e.str[j])
                /\ DecimalValue(e.str) = status
           ELSE e.str = Str0

\* C6 witness: status 418 went through the digit computation and reads "418".
C6_Witness ==
  /\ ser_pc = "serialize_end"
  /\ request.headers_out.status = 418
  /\ root.elems[1].str = <<52, 49, 56>>

\* C9: a request with an empty query string has a zero-capacity Map under the
\* query key, and a request without cookies a zero-capacity Map under the
\* cookies key.
C9_EmptySourceIsEmptyMap ==
  ser_pc = "serialize" =>
    /\ Len(request.args) = 0 =>
         root.elems[1].type = "Map" /\ root.elems[1].nbEntries = 0
    /\ request.headers_in.cookie = <<>> =>
         root.elems[5].type = "Map" /\ root.elems[5].nbEntries = 0

NodeTypes == {"Null", "String", "Map", "Array"}

RequestKeys == <<QUERY, URI_RAW, METHOD, HEADERS_NO_COOKIES, COOKIES, CLIENT_IP>>

ResponseKeys == <<STATUS, RESP_HEADERS_NO_COOKIES>>

HasShape(node, keys) ==
  /\ node.type = "Map"
  /\ node.nbEntries = Len(keys)
  /\ Len(node.elems) = Len(keys)
  /\ \A j \in 1..Len(keys) :
       /\ node.elems[j].hasKey
       /\ node.elems[j].key = keys[j]
       /\ node.elems[j].type \in NodeTypes

\* C10: serialize returns a Map of exactly 6 entries with the six request keys
\* in order, serialize_end a Map of exactly 2 entries with the two response
\* keys in order; every entry has its key and a value type set.
C10_RootShape ==
  /\ ser_pc = "serialize" => HasShape(root, RequestKeys)
  /\ ser_pc = "serialize_end" => HasShape(root, ResponseKeys)

\* C10 witness: a request with a query, headers and cookies was serialized.
C10_Witness ==
  /\ ser_pc = "serialize"
  /\ Len(request.args) > 0
  /\ Len(request.headers_in.cookie) = 2
  /\ HasShape(root, RequestKeys)
  /\ root.elems[5].nbEntries = 2

(* ------------------------------------------------------------------ *)
(* Claims about content negotiation (SpecCt)                            *)
(* ------------------------------------------------------------------ *)
RECURSIVE EntriesFrom(_)
EntriesFrom(i) ==
  IF i.is_end THEN <<>>
  ELSE <<accept_iter_deref(i)>> \o EntriesFrom(accept_iter_increment(i))

\* the parsed segments of an Accept header, in header order
AcceptEntries(header) == EntriesFrom(accept_entry_iter(header, 0))

\* how precisely a segment names a candidate: 3 exact, 2 type/*, 1 */*, 0 not at all
SpecificityFor(cand, ae) ==
  LET ty == IF cand = "HTML" THEN StrText ELSE StrApplication
      sub == IF cand = "HTML" THEN StrHtml ELSE StrJson
  IN  IF ae.type = ty /\ ae.subtype = sub THEN 3
      ELSE IF ae.type = ty /\ ae.subtype = StrStar THEN 2
      ELSE IF ae.type = StrStar /\ ae.subtype = StrStar THEN 1
      ELSE 0

\* the deciding segment of a candidate: the earliest segment of the highest
\* specificity for it (0 when no segment names the candidate)
Deciding(cand, es) ==
  LET named == {j \in 1..Len(es) : SpecificityFor(cand, es[j]) > 0} IN
  IF named = {} THEN 0
  ELSE CHOOSE j \in named :
         /\ \A l \in named : SpecificityFor(cand, es[l]) <= SpecificityFor(cand, es[j])
         /\ \A l \in named : SpecificityFor(cand, es[l]) = SpecificityFor(cand, es[j]) => j <= l

QOf(cand, es) == IF Deciding(cand, es) = 0 THEN 0 ELSE es[Deciding(cand, es)].qvalue

\* C5: once the whole Accept header is scanned, HTML is returned when the
\* HTML candidate's q-value is strictly greater, JSON when the JSON
\* candidate's is, and on an exact tie the candidate whose deciding segment
\* came earlier; text/html,application/json;q=0.9 yields HTML.
C5_Negotiation ==
  (ct_pc = "done" /\ accept.present) =>
    LET es == AcceptEntries(accept.value)
        qh == QOf("HTML", es)
        qj == QOf("JSON", es)
        dh == Deciding("HTML", es)
        dj == Deciding("JSON", es)
    IN  /\ qh > qj => ct_result = "HTML"
        /\ qj > qh => ct_result = "JSON"
        /\ (qh = qj /\ dh # 0 /\ dj # 0 /\ dh < dj) => ct_result = "HTML"
        /\ (qh = qj /\ dh # 0 /\ dj # 0 /\ dj < dh) => ct_result = "JSON"
        /\ accept.value = JoinSegments(<<SegHtml, SegJson09>>) => ct_result = "HTML"

\* C5 witness: a tie at q = 0.5 between text/html;q=0.5 (first) and
\* application/*;q=0.5 (second) was decided for HTML.
C5_Witness ==
  /\ ct_pc = "done"
  /\ accept = AcceptOf(<<SegHtml05, SegAppAny05>>)
  /\ best.html_qvalue = 500 /\ best.json_qvalue = 500
  /\ ct_result = "HTML"

\* what the scan has recorded for a candidate
Recorded(cand, b) ==
  IF cand = "HTML"
  THEN [spec |-> b.html_spec, qvalue |-> b.html_qvalue, pos |-> b.html_pos]
  ELSE [spec |-> b.json_spec, qvalue |-> b.json_qvalue, pos |-> b.json_pos]

\* the record of the deciding segment among the segments es (positions from 0)
RecordOfDeciding(cand, es) ==
  LET d == Deciding(cand, es) IN
  IF d = 0 THEN [spec |-> 0, qvalue |-> 0, pos |-> 0]
  ELSE [spec |-> SpecificityFor(cand, es[d]), qvalue |-> es[d].qvalue, pos |-> d - 1]

\* one round of the scan leaves a candidate alone unless the segment is
\* strictly more specific for it, and then records the segment
StrictUpdate(cand) ==
  LET ae == accept_iter_deref(ct_it)
      sp == SpecificityFor(cand, ae)
  IN  /\ sp <= Recorded(cand, best).spec => Recorded(cand, best') = Recorded(cand, best)
      /\ sp > Recorded(cand, best).spec =>
           Recorded(cand, best') = [spec |-> sp, qvalue |-> ae.qvalue, pos |-> ct_pos]

\* C12: a segment replaces a candidate's recorded specificity, q-value and
\* position only if its specificity for the candidate is strictly greater
\* than the recorded one; so at every step of the scan each candidate's
\* record is that of the earliest segment of the highest specificity seen so
\* far, and a later segment of equal or lower specificity never changes it.
C12_StrictSpecificityUpdate ==
  /\ [](ct_pc = "scan" =>
          \A cand \in {"HTML", "JSON"} :
            Recorded(cand, best) =
              RecordOfDeciding(cand, SubSeq(AcceptEntries(accept.value), 1, ct_pos)))
  /\ [][(ct_pc = "scan" /\ ct_pos' = ct_pos + 1) =>
          (StrictUpdate("HTML") /\ StrictUpdate("JSON"))]_vars

\* C12 witness: text/*, then text/html;q=0.5, then text/html were scanned;
\* the HTML candidate keeps the q-value and position of the second segment.
C12_Witness ==
  /\ ct_pc = "scan"
  /\ accept = AcceptOf(<<SegTextAny, SegHtml05, SegHtml>>)
  /\ ct_pos = 3
  /\ best.html_spec = full
  /\ best.html_qvalue = 500
  /\ best.html_pos = 1

\* the q parameter of a segment, read off its text: the parameters are the
\* pieces between semicolons after type/subtype, the q parameter is the first
\* one named q; its value counts when it is a decimal number in (0,1], and
\* the q-value is 1.0 (1000 thousandths) in every other case
QParamValue(seg) ==
  LET semicolon == IndexOf(seg, 59)
      params == IF semicolon = 0 THEN <<>>
                ELSE SplitOn(SubSeq(seg, semicolon + 1, Len(seg)), 59)
      named_q == {j \in 1..Len(params) :
                    SubSeq(TrimSpaces(params[j]), 1, 2) = StrQEq}
      first_q == CHOOSE j \in named_q : \A l \in named_q : j <= l
      text == LET p == TrimSpaces(params[first_q]) IN SubSeq(p, 3, Len(p))
      num == strtod(text)
  IN  IF named_q = {} THEN 1000
      ELSE IF num.consumed = Len(text) /\ num.consumed > 0
              /\ num.value > 0 /\ num.value <= 1000
           THEN num.value
           ELSE 1000

\* C13: for every Accept segment of the form type/subtype[;...;q=value] the
\* parsed entry's q-value is the value of its q parameter when that is a
\* number in (0,1], whatever parameters come before the q parameter, and
\* 1.0 in every other case; so every parsed q-value lies in (0,1].
C13_QValueParsed ==
  (ct_pc = "scan" /\ ~ct_it.is_end) =>
    LET seg == SubSeq(ct_it.header, ct_it.pos + 1, ct_it.pos_end)
        ae == accept_iter_deref(ct_it)
    IN  IndexOf(seg, 47) # 0 =>
          /\ ae.qvalue = QParamValue(seg)
          /\ ae.qvalue > 0 /\ ae.qvalue <= 1000

(* ------------------------------------------------------------------ *)
(* Claims about the blocking service (SpecBlk)                          *)
(* ------------------------------------------------------------------ *)
CallNames == {blk_calls[j].fn : j \in 1..Len(blk_calls)}

\* C7: with content-type policy NONE, whatever the Accept header, status and
\* location, block marks the response header-only, sets the content length
\* to 0, allocates and emits no body buffer, and finalizes.
C7_NoneHasNoBody ==
  (blk_pc # "pending" /\ blk_in.spec.ct = "NONE") =>
    /\ blk_pc = "blocked"
    /\ blk_req.header_only = 1
    /\ blk_req.headers_out.content_length_n = 0
    /\ blk_req.headers_out.content_type.len = 0
    /\ "ngx_calloc_buf" \notin CallNames
    /\ "ngx_http_output_filter" \notin CallNames
    /\ blk_calls[Len(blk_calls)].fn = "ngx_http_finalize_request"

\* C7 witness: policy NONE with an Accept header that prefers HTML, a redirect
\* location, a request that was not header-only and a header sent with NGX_OK.
C7_Witness ==
  /\ blk_pc = "blocked"
  /\ blk_in.spec.ct = "NONE"
  /\ blk_in.spec.location = LocationUrl
  /\ blk_in.req.accept = AcceptOf(<<SegHtml, SegJson09>>)
  /\ blk_in.req.header_only = 0
  /\ blk_calls[Len(blk_calls)] = Call("ngx_http_finalize_request", NGX_OK, NoBuf)
  /\ blk_req.headers_out.content_length_n = 0

CallsOf(fn) == {j \in 1..Len(blk_calls) : blk_calls[j].fn = fn}

\* what ngx_http_send_header returned to block
HeaderResult == blk_calls[CHOOSE j \in CallsOf("ngx_http_send_header") : TRUE].rc

\* the header result or the header-only mark ends block after the header
HeaderEndsResponse ==
  HeaderResult = NGX_ERROR \/ HeaderResult > NGX_OK \/ blk_req.header_only # 0

\* the template the response's content type selects
SelectedTemplate ==
  IF blk_req.headers_out.content_type = content_type_header("HTML")
  THEN instance.templ_html ELSE instance.templ_json

\* the request was finalized with rc right after the header, without a body
FinalizedAfterHeader(rc) ==
  /\ CallsOf("ngx_http_output_filter") = {}
  /\ CallsOf("ngx_calloc_buf") = {}
  /\ \A j \in CallsOf("ngx_http_send_header") :
       /\ j + 1 = Len(blk_calls)
       /\ blk_calls[j + 1] = Call("ngx_http_finalize_request", rc, NoBuf)

\* one final buffer with the selected template's bytes was emitted after the
\* header, and the request was finalized as complete
BodyEmittedOnce ==
  /\ Cardinality(CallsOf("ngx_http_output_filter")) = 1
  /\ \A j \in CallsOf("ngx_http_output_filter") :
       /\ \E h \in CallsOf("ngx_http_send_header") : h < j
       /\ blk_calls[j].buf = [pos |-> SelectedTemplate.data, len |-> SelectedTemplate.len,
                              last_buf |-> 1, memory |-> 1]
       /\ j + 1 = Len(blk_calls)
       /\ blk_calls[j + 1] = Call("ngx_http_finalize_request", NGX_DONE, NoBuf)

\* C14 as stated: the body buffer is emitted only after the header was
\* emitted, only if that returned OK and the response is not header-only; if
\* the header emission errors or returns a value above OK, or the response is
\* header-only, the request is finalized at once with the header result and
\* no body; otherwise exactly one final buffer with the selected template's
\* bytes is emitted and the request is finalized as complete.
C14_BodyOnlyAfterHeaderOk ==
  blk_pc = "blocked" =>
    /\ CallsOf("ngx_http_output_filter") # {} =>
         (HeaderResult = NGX_OK /\ blk_req.header_only = 0)
    /\ HeaderEndsResponse => FinalizedAfterHeader(HeaderResult)
    /\ ~HeaderEndsResponse => BodyEmittedOnce

\* C14 as amended: the body buffer is emitted only after the header was
\* emitted, only if that returned neither an error nor a value above OK, the
\* response is not header-only and a buffer could be allocated; if the header
\* result or the header-only mark ends the response, the request is finalized
\* at once with the header result and no body; otherwise, if no buffer could
\* be allocated, the request is finalized with an error and no body; otherwise
\* exactly one final buffer with the selected template's bytes is emitted and
\* the request is finalized as complete.
C14_BodyAfterHeaderAccepted ==
  blk_pc = "blocked" =>
    /\ CallsOf("ngx_http_output_filter") # {} =>
         /\ ~HeaderEndsResponse
         /\ \E j \in CallsOf("ngx_calloc_buf") : blk_calls[j].rc = 1
    /\ HeaderEndsResponse => FinalizedAfterHeader(HeaderResult)
    /\ (~HeaderEndsResponse /\ \E j \in CallsOf("ngx_calloc_buf") : blk_calls[j].rc = 0) =>
         /\ CallsOf("ngx_http_output_filter") = {}
         /\ blk_calls[Len(blk_calls)] = Call("ngx_http_finalize_request", NGX_ERROR, NoBuf)
    /\ (~HeaderEndsResponse /\ \E j \in CallsOf("ngx_calloc_buf") : blk_calls[j].rc = 1) =>
         BodyEmittedOnce
    /\ ~HeaderEndsResponse => CallsOf("ngx_calloc_buf") # {}

\* C14 witness: the header emission returned NGX_AGAIN for an HTML response
\* and the HTML template was emitted as the one final buffer.
C14_Witness ==
  /\ blk_pc = "blocked"
  /\ HeaderResult = NGX_AGAIN
  /\ blk_in.spec.ct = "HTML"
  /\ \E j \in CallsOf("ngx_http_output_filter") :
       blk_calls[j].buf.pos = instance.templ_html.data
  /\ blk_calls[Len(blk_calls)].rc = NGX_DONE

\* C15: every call of block finalizes the request exactly once, as its last
\* action, on every path (header emission failure, header-only response,
\* buffer allocation failure, body emitted); no response header or body is
\* emitted after the finalize.
C15_FinalizeOnceLast ==
  blk_pc # "pending" =>
    /\ blk_pc = "blocked"
    /\ Cardinality(CallsOf("ngx_http_finalize_request")) = 1
    /\ blk_calls[Len(blk_calls)].fn = "ngx_http_finalize_request"
    /\ \A f \in CallsOf("ngx_http_finalize_request") :
         \A j \in CallsOf("ngx_http_send_header") \cup CallsOf("ngx_http_output_filter") :
           j < f

\* C15 witness: the header was accepted for a JSON response, no buffer could
\* be allocated, and the request was finalized with NGX_ERROR as the last call.
C15_Witness ==
  /\ blk_pc = "blocked"
  /\ blk_in.spec.ct = "JSON"
  /\ HeaderResult = NGX_OK
  /\ \E j \in CallsOf("ngx_calloc_buf") : blk_calls[j].rc = 0
  /\ blk_calls[Len(blk_calls)] = Call("ngx_http_finalize_request", NGX_ERROR, NoBuf)
  /\ Len(blk_calls) = 4

\* loading the template at path p fails: the file cannot be opened, or the
\* read does not deliver its contents
LoadFails(p) ==
  /\ p.present
  /\ \/ p.path \notin DOMAIN TemplateFiles
     \/ TemplateFiles[p.path].got # TemplateFiles[p.path].str

\* C17: if template loading fails in a call of initialize made while no
\* instance is published, the call ends with an error and publishes no
\* instance: the service stays uninitialized, no block call can use partly
\* built templates, and the call is not rejected as a second initialization.
C17_LoadFailureLeavesUninitialized ==
  [][(init_calls' # init_calls /\ ~instance.present
      /\ (LoadFails(init_args'.templ_html) \/ LoadFails(init_args'.templ_json))) =>
       /\ init_error' \notin {"none", "Blocking service already initialized"}
       /\ ~instance'.present]_vars

\* C8: once an instance is published, every call of initialize throws
\* "already initialized" and leaves the instance and its templates unchanged.
C8_InitializeOnce ==
  [][(instance.present /\ init_calls' # init_calls) =>
       (instance' = instance /\ init_error' = "Blocking service already initialized")]_vars

\* C8 witness: a second call, with a custom template, was rejected and the
\* default templates are still published.
C8_Witness ==
  /\ init_calls >= 2
  /\ init_error = "Blocking service already initialized"
  /\ instance.present
  /\ instance.templ_html = default_template_html

====
